---- MODULE Spec2Model ----
(***************************************************************************)
(* tokio-postgres/src/connect_socket.rs: one dial, through either entry    *)
(* point (connect_socket_addr, connect_socket), with the timeout wrapper   *)
(* connect_with_timeout.  The environment (resolver, peers, clock, socket  *)
(* options) is nondeterministic.                                           *)
(***************************************************************************)
EXTENDS Integers, Sequences, FiniteSets, TLC

\* ------------------------------------------------------------------ bounds
MaxAddrs == 3
MaxLatency == 2
MaxTimeout == 2

\* ---------------------------------------------------------- Option<T>
None == <<>>
Some(x) == <<x>>

\* ------------------------------------------------------------ io::Error
\* An OS error is identified by its kind; a custom error (io::Error::new)
\* by its kind and its message.
OsError(k) == [kind |-> k, text |-> "os"]
CustomError(k, m) == [kind |-> k, text |-> m]

ConnectErrors == {OsError("ConnectionRefused"), OsError("TimedOut")}
LookupErrors == {CustomError("Other", "failed to lookup address information"),
                 OsError("TimedOut")}
SockOptErrors == {OsError("InvalidInput")}

\* io::Result<()> / io::Result<T> of an operation of the environment
IoOk == [tag |-> "Ok", err |-> None]
IoErr(e) == [tag |-> "Err", err |-> Some(e)]
ConnectOutcomes == {IoOk} \cup {IoErr(e) : e \in ConnectErrors}
SockOptOutcomes == {IoOk} \cup {IoErr(e) : e \in SockOptErrors}

\* ---------------------------------------------------------- crate::Error
Error_connect(e) == [kind |-> "Connect", cause |-> Some(e)]

\* Result<T, Error>
Ok(v) == [tag |-> "Ok", val |-> Some(v), err |-> None]
Err(e) == [tag |-> "Err", val |-> None, err |-> Some(e)]
Pending == [tag |-> "Pending", val |-> None, err |-> None]
Panic == [tag |-> "Panic", val |-> None, err |-> None]

\* ------------------------------------------------------- inputs of a dial
VarRunPostgresql == <<"/", "v", "a", "r", "/", "r", "u", "n", "/",
                      "p", "o", "s", "t", "g", "r", "e", "s", "q", "l">>
Dirs == {<<"/", "r">>, <<"/", "r", "/">>, <<>>, VarRunPostgresql}
HostTcp(n) == [tag |-> "Tcp", name |-> n, path |-> <<>>]
HostUnix(p) == [tag |-> "Unix", name |-> "", path |-> p]
Hosts == {HostTcp("db")} \cup {HostUnix(d) : d \in Dirs}
Ports == {5432, 80}
Ips == {"A", "B"}
AddrTcp(ip, p) == [tag |-> "Tcp", ip |-> ip, port |-> p]
AddrUnix == [tag |-> "Unix", ip |-> "", port |-> 0]
SocketAddrs == {AddrTcp(ip, 5432) : ip \in Ips} \cup {AddrUnix}
Timeouts == {None} \cup {Some(d) : d \in 1..MaxTimeout}
KeepaliveConfigs == {None, Some([idle |-> 7, interval |-> 2, retries |-> 3])}

\* what a connect future dials: a TCP address or a Unix socket path
ToTcp(a) == [tag |-> "Tcp", addr |-> Some(a), path |-> <<>>]
ToUnix(p) == [tag |-> "Unix", addr |-> None, path |-> p]

VARIABLES entry, host, port, socket, connect_timeout, keepalive_config,
          pc, addrs, next, last_err, now, deadline, conn, ret, result,
          open_fds, attempts, lookup, sockopts

vars == <<entry, host, port, socket, connect_timeout, keepalive_config,
          pc, addrs, next, last_err, now, deadline, conn, ret, result,
          open_fds, attempts, lookup, sockopts>>

inputs == <<entry, host, port, socket, connect_timeout, keepalive_config>>

Init ==
    /\ entry \in {"connect_socket", "connect_socket_addr"}
    /\ host \in Hosts
    /\ port \in (IF host.tag = "Tcp" THEN {5432} ELSE Ports)
    /\ socket \in (IF entry = "connect_socket_addr"
                   THEN {Some(a) : a \in SocketAddrs} ELSE {None})
    /\ connect_timeout \in Timeouts
    /\ keepalive_config \in KeepaliveConfigs
    /\ pc = "call"
    /\ addrs = <<>>
    /\ next = 1
    /\ last_err = None
    /\ now = 0
    /\ deadline = None
    /\ conn = None
    /\ ret = Pending
    /\ result = Pending
    /\ open_fds = {}
    /\ attempts = <<>>
    /\ lookup = "none"
    /\ sockopts = <<>>

\* ------------------------------------------------------ pure helpers
Digit(d) == <<"0", "1", "2", "3", "4", "5", "6", "7", "8", "9">>[d + 1]

RECURSIVE ToDecimal(_)
\* format!("{}", port) for an unsigned port
ToDecimal(n) == IF n < 10 THEN <<Digit(n)>>
                ELSE ToDecimal(n \div 10) \o <<Digit(n % 10)>>

\* faulty variant: the port is appended without the separating dot
SocketFileName_NoDot(p) == <<".", "s", ".", "P", "G", "S", "Q", "L">> \o ToDecimal(p)

\* format!(".s.PGSQL.{}", port)
SocketFileName(p) == <<".", "s", ".", "P", "G", "S", "Q", "L", ".">> \o ToDecimal(p)

\* Path::join: an absolute argument replaces the path, otherwise it is
\* appended after a separator (added unless the path is empty or ends in one)
PathJoin(dir, f) ==
    IF f # <<>> /\ f[1] = "/" THEN f
    ELSE IF dir = <<>> \/ dir[Len(dir)] = "/" THEN dir \o f
    ELSE dir \o <<"/">> \o f

\* path.join(format!(".s.PGSQL.{}", port))
SocketPath(dir, p) == PathJoin(dir, SocketFileName(p))

\* TcpKeepalive::from(&KeepaliveConfig)
TcpKeepalive_from(k) == [time |-> k.idle, interval |-> k.interval, retries |-> k.retries]

\* a connected stream: the descriptor it owns and the options set on it
NewStream(target, fd) == [target |-> target, fd |-> fd, nodelay |-> FALSE, keepalive |-> None]
Socket_new_tcp(s) == [tag |-> "Tcp", stream |-> s]
Socket_new_unix(s) == [tag |-> "Unix", stream |-> s]

\* ------------------------------------------------- connect_with_timeout
\* time::timeout(timeout, connect): the timer is armed when the wrapper is
\* entered, at instant t
\* faulty variant: the timer is never armed
ArmDeadline_Never(timeout, t) == None

\* faulty variant: one budget for the whole dial, counted from its start
ArmDeadline_Shared(timeout, t) == IF timeout = None THEN None ELSE Some(timeout[1])

ArmDeadline(timeout, t) == IF timeout = None THEN None ELSE Some(t + timeout[1])

TimedOutError == CustomError("TimedOut", "connection timed out")

\* faulty variant: the timer arm builds its error with the wrong io::ErrorKind
WrapperResult_WrongKind(timeout, fired, outcome, s) ==
    IF fired THEN Err(Error_connect(CustomError("Other", "connection timed out")))
    ELSE IF outcome.tag = "Ok" THEN Ok(s)
    ELSE Err(Error_connect(outcome.err[1]))

\* faulty variant: the arm without a deadline reports every failure as a timeout
WrapperResult_NoneAsTimeout(timeout, fired, outcome, s) ==
    IF timeout # None
    THEN IF fired THEN Err(Error_connect(TimedOutError))
         ELSE IF outcome.tag = "Ok" THEN Ok(s)
         ELSE Err(Error_connect(outcome.err[1]))
    ELSE IF outcome.tag = "Ok" THEN Ok(s)
         ELSE Err(Error_connect(TimedOutError))

\* the match of connect_with_timeout: fired is TRUE when time::timeout
\* returned Err(Elapsed); outcome is the connect operation's io::Result and
\* s the stream it produced
WrapperResult(timeout, fired, outcome, s) ==
    IF timeout # None
    THEN IF fired THEN Err(Error_connect(TimedOutError))
         ELSE IF outcome.tag = "Ok" THEN Ok(s)
         ELSE Err(Error_connect(outcome.err[1]))
    ELSE IF outcome.tag = "Ok" THEN Ok(s)
         ELSE Err(Error_connect(outcome.err[1]))

\* the descriptors open once the wrapper has returned after the timer fired:
\* the Timeout future, which owns the connect future and its socket, is a
\* temporary of the match and is dropped before the function returns
\* faulty variant: the abandoned connect future is kept alive (its socket stays open)
AfterTimeoutDrop_Leak(fds, fd) == fds

AfterTimeoutDrop(fds, fd) == fds \ {fd}

\* the connect operation is ready at its completion instant (polled before
\* the timer, so it wins a tie)
OpReady == conn # None /\ conn[1].latency # None
           /\ now >= conn[1].start + conn[1].latency[1]
TimerReady == deadline # None /\ now >= deadline[1]

\* connect_with_timeout(XStream::connect(target), connect_timeout) is entered:
\* the connect future opens a descriptor; the peer's behaviour (latency,
\* outcome) is the environment's choice
StartConnect(target) ==
    \E lat \in {None} \cup {Some(l) : l \in 0..MaxLatency}, o \in ConnectOutcomes :
        LET fd == Len(attempts) + 1
        IN /\ lat = None => o = IoOk
           /\ conn' = Some([target |-> target, fd |-> fd, start |-> now,
                            latency |-> lat, outcome |-> o, how |-> "inflight"])
           /\ deadline' = ArmDeadline(connect_timeout, now)
           /\ open_fds' = open_fds \cup {fd}
           /\ attempts' = Append(attempts, [target |-> target, fd |-> fd, ret |-> Pending])
           /\ ret' = Pending
           /\ pc' = "connecting"

\* the wrapper returns r to the Dialer
Finished(how, r) ==
    /\ ret' = r
    /\ conn' = Some([conn[1] EXCEPT !.how = how])
    /\ attempts' = [attempts EXCEPT ![Len(attempts)].ret = r]
    /\ deadline' = None
    /\ pc' = "returned"

\* time passes while the wrapper is suspended and neither side is ready
Tick ==
    /\ pc = "connecting"
    /\ ~OpReady /\ ~TimerReady
    /\ conn[1].latency # None \/ deadline # None
    /\ now' = now + 1
    /\ UNCHANGED <<inputs, pc, addrs, next, last_err, deadline, conn, ret, result,
                   open_fds, attempts, lookup, sockopts>>

\* the connect operation completes first
OpCompletes ==
    /\ pc = "connecting"
    /\ OpReady
    /\ LET c == conn[1]
           r == WrapperResult(connect_timeout, FALSE, c.outcome, NewStream(c.target, c.fd))
       IN /\ Finished("completed", r)
          /\ open_fds' = IF c.outcome.tag = "Ok" THEN open_fds ELSE open_fds \ {c.fd}
    /\ UNCHANGED <<inputs, addrs, next, last_err, now, result, lookup, sockopts>>

\* the timer fires first
TimerFires ==
    /\ pc = "connecting"
    /\ ~OpReady
    /\ TimerReady
    /\ LET c == conn[1]
           r == WrapperResult(connect_timeout, TRUE, c.outcome, NewStream(c.target, c.fd))
       IN /\ Finished("timer", r)
          /\ open_fds' = AfterTimeoutDrop(open_fds, c.fd)
    /\ UNCHANGED <<inputs, addrs, next, last_err, now, result, lookup, sockopts>>

\* ------------------------------------------------- Socket Configurator
\* set_nodelay(true)?, then set_tcp_keepalive(..)? when a config is given,
\* then Socket::new_tcp: nd and ka are the results of the two setsockopt calls
\* faulty variant: the results of the setsockopt calls are ignored
ConfigureTcp_IgnoreErrors(s, cfg, nd, ka) ==
    Ok(Socket_new_tcp([s EXCEPT !.nodelay = (nd.tag = "Ok"),
                                !.keepalive = IF cfg # None /\ ka.tag = "Ok"
                                              THEN Some(TcpKeepalive_from(cfg[1]))
                                              ELSE None]))

ConfigureTcp(s, cfg, nd, ka) ==
    IF nd.tag = "Err" THEN Err(Error_connect(nd.err[1]))
    ELSE IF cfg # None
         THEN IF ka.tag = "Err" THEN Err(Error_connect(ka.err[1]))
              ELSE Ok(Socket_new_tcp([s EXCEPT !.nodelay = TRUE,
                                               !.keepalive = Some(TcpKeepalive_from(cfg[1]))]))
         ELSE Ok(Socket_new_tcp([s EXCEPT !.nodelay = TRUE]))

\* the setsockopt calls ConfigureTcp makes, in order
SockOptCalls(s, cfg, nd, ka) ==
    <<[fd |-> s.fd, opt |-> "nodelay", res |-> nd]>> \o
    (IF nd.tag = "Ok" /\ cfg # None
     THEN <<[fd |-> s.fd, opt |-> "keepalive", res |-> ka]>> ELSE <<>>)

KaOutcomes == IF keepalive_config = None THEN {IoOk} ELSE SockOptOutcomes

\* the dial returns r; a stream that is not handed to the caller is dropped
Return(r, fd) ==
    /\ result' = r
    /\ open_fds' = IF r.tag = "Ok" THEN open_fds ELSE open_fds \ {fd}
    /\ pc' = "done"

\* ------------------------------------------------- connect_socket_addr
\* faulty variant: with a Local host the socket path is dialled instead
CsaTcpStart_ConsultsHost ==
    /\ pc = "call" /\ entry = "connect_socket_addr"
    /\ socket[1].tag = "Tcp"
    /\ IF host.tag = "Unix" THEN StartConnect(ToUnix(SocketPath(host.path, port)))
       ELSE StartConnect(ToTcp(socket[1]))
    /\ UNCHANGED <<inputs, addrs, next, last_err, now, result, lookup, sockopts>>

CsaTcpStart ==
    /\ pc = "call" /\ entry = "connect_socket_addr"
    /\ socket[1].tag = "Tcp"
    /\ StartConnect(ToTcp(socket[1]))
    /\ UNCHANGED <<inputs, addrs, next, last_err, now, result, lookup, sockopts>>

CsaTcpFailed ==
    /\ pc = "returned" /\ entry = "connect_socket_addr"
    /\ socket[1].tag = "Tcp"
    /\ ret.tag = "Err"
    /\ Return(Err(ret.err[1]), 0)
    /\ UNCHANGED <<inputs, addrs, next, last_err, now, deadline, conn, ret,
                   attempts, lookup, sockopts>>

CsaTcpConnected ==
    /\ pc = "returned" /\ entry = "connect_socket_addr"
    /\ socket[1].tag = "Tcp"
    /\ ret.tag = "Ok"
    /\ \E nd \in SockOptOutcomes, ka \in KaOutcomes :
          LET stream == ret.val[1] IN
          /\ Return(ConfigureTcp(stream, keepalive_config, nd, ka), stream.fd)
          /\ sockopts' = sockopts \o SockOptCalls(stream, keepalive_config, nd, ka)
    /\ UNCHANGED <<inputs, addrs, next, last_err, now, deadline, conn, ret,
                   attempts, lookup>>

\* faulty variant: the mismatch is reported as a runtime error
CsaUnixUnreachable_AsError ==
    /\ pc = "call" /\ entry = "connect_socket_addr"
    /\ socket[1].tag = "Unix"
    /\ host.tag = "Tcp"
    /\ result' = Err(Error_connect(CustomError("InvalidInput", "mismatched host and address")))
    /\ pc' = "done"
    /\ UNCHANGED <<inputs, addrs, next, last_err, now, deadline, conn, ret,
                   open_fds, attempts, lookup, sockopts>>

CsaUnixUnreachable ==
    /\ pc = "call" /\ entry = "connect_socket_addr"
    /\ socket[1].tag = "Unix"
    /\ host.tag = "Tcp"
    /\ result' = Panic
    /\ pc' = "done"
    /\ UNCHANGED <<inputs, addrs, next, last_err, now, deadline, conn, ret,
                   open_fds, attempts, lookup, sockopts>>

CsaUnixStart ==
    /\ pc = "call" /\ entry = "connect_socket_addr"
    /\ socket[1].tag = "Unix"
    /\ host.tag = "Unix"
    /\ StartConnect(ToUnix(SocketPath(host.path, port)))
    /\ UNCHANGED <<inputs, addrs, next, last_err, now, result, lookup, sockopts>>

\* faulty variant: the Local stream goes through the Tcp configuration
CsaUnixReturn_Configured ==
    /\ pc = "returned" /\ entry = "connect_socket_addr"
    /\ socket[1].tag = "Unix"
    /\ IF ret.tag = "Err"
       THEN Return(Err(ret.err[1]), 0) /\ UNCHANGED sockopts
       ELSE \E nd \in SockOptOutcomes, ka \in KaOutcomes :
              LET stream == ret.val[1]
                  r == ConfigureTcp(stream, keepalive_config, nd, ka)
              IN /\ Return(IF r.tag = "Ok"
                           THEN Ok(Socket_new_unix(r.val[1].stream)) ELSE r, stream.fd)
                 /\ sockopts' = sockopts \o SockOptCalls(stream, keepalive_config, nd, ka)
    /\ UNCHANGED <<inputs, addrs, next, last_err, now, deadline, conn, ret,
                   attempts, lookup>>

CsaUnixReturn ==
    /\ pc = "returned" /\ entry = "connect_socket_addr"
    /\ socket[1].tag = "Unix"
    /\ Return(IF ret.tag = "Ok" THEN Ok(Socket_new_unix(ret.val[1])) ELSE Err(ret.err[1]), 0)
    /\ UNCHANGED <<inputs, addrs, next, last_err, now, deadline, conn, ret,
                   attempts, lookup, sockopts>>

\* ------------------------------------------------------ connect_socket
\* net::lookup_host((host, port)).await
CsLookup ==
    /\ pc = "call" /\ entry = "connect_socket"
    /\ host.tag = "Tcp"
    /\ pc' = "lookup"
    /\ UNCHANGED <<inputs, addrs, next, last_err, now, deadline, conn, ret, result,
                   open_fds, attempts, lookup, sockopts>>

\* faulty variant: the lookup failure is swallowed and a default address is dialled
LookupFailed_Fallthrough(e) ==
    /\ addrs' = <<AddrTcp("A", port)>>
    /\ next' = 1
    /\ pc' = "loop"
    /\ UNCHANGED result

\* faulty variant: the lookup's cause is dropped for the no-addresses error
LookupFailed_DropCause(e) ==
    /\ result' = Err(Error_connect(CustomError("InvalidInput",
                                               "could not resolve any addresses")))
    /\ pc' = "done"
    /\ UNCHANGED <<addrs, next>>

\* .map_err(Error::connect)?
LookupFailed(e) ==
    /\ result' = Err(Error_connect(e))
    /\ pc' = "done"
    /\ UNCHANGED <<addrs, next>>

CsLookupFails ==
    /\ pc = "lookup" /\ lookup = "none"
    /\ \E e \in LookupErrors : LookupFailed(e)
    /\ lookup' = "failed"
    /\ UNCHANGED <<inputs, last_err, now, deadline, conn, ret,
                   open_fds, attempts, sockopts>>

RECURSIVE SeqsUpTo(_, _)
SeqsUpTo(S, n) == IF n = 0 THEN {<<>>}
                  ELSE LET P == SeqsUpTo(S, n - 1)
                       IN P \cup {Append(q, x) : q \in {r \in P : Len(r) = n - 1}, x \in S}

\* lookup_host is awaited without a deadline: the resolver may never answer
CsLookupNeverReturns ==
    /\ pc = "lookup" /\ lookup = "none"
    /\ lookup' = "never"
    /\ UNCHANGED <<inputs, pc, addrs, next, last_err, now, deadline, conn, ret, result,
                   open_fds, attempts, sockopts>>

CsLookupReturns ==
    /\ pc = "lookup" /\ lookup = "none"
    /\ \E as \in SeqsUpTo({AddrTcp(ip, port) : ip \in Ips}, MaxAddrs) : addrs' = as
    /\ next' = 1
    /\ lookup' = "ok"
    /\ pc' = "loop"
    /\ UNCHANGED <<inputs, last_err, now, deadline, conn, ret, result,
                   open_fds, attempts, sockopts>>

\* faulty variant: a candidate equal to the one before it is skipped
CsNextCandidate_Dedup ==
    /\ pc = "loop"
    /\ next <= Len(addrs)
    /\ IF next > 1 /\ addrs[next] = addrs[next - 1]
       THEN UNCHANGED <<conn, deadline, open_fds, attempts, ret, pc>>
       ELSE StartConnect(ToTcp(addrs[next]))
    /\ next' = next + 1
    /\ UNCHANGED <<inputs, addrs, last_err, now, result, lookup, sockopts>>

\* for addr in addrs { connect_with_timeout(TcpStream::connect(addr), ..) }
CsNextCandidate ==
    /\ pc = "loop"
    /\ next <= Len(addrs)
    /\ StartConnect(ToTcp(addrs[next]))
    /\ next' = next + 1
    /\ UNCHANGED <<inputs, addrs, last_err, now, result, lookup, sockopts>>

\* faulty variant: only the first failure is kept
RecordError_KeepFirst(le, e) == IF le = None THEN Some(e) ELSE le

\* Err(e) => { last_err = Some(e); continue; }
RecordError(le, e) == Some(e)

CsCandidateFailed ==
    /\ pc = "returned" /\ entry = "connect_socket"
    /\ host.tag = "Tcp"
    /\ ret.tag = "Err"
    /\ last_err' = RecordError(last_err, ret.err[1])
    /\ pc' = "loop"
    /\ UNCHANGED <<inputs, addrs, next, now, deadline, conn, ret, result,
                   open_fds, attempts, lookup, sockopts>>

\* faulty variant: a configuration failure is recorded and the next candidate tried
CsCandidateConnected_Fallback ==
    /\ pc = "returned" /\ entry = "connect_socket"
    /\ host.tag = "Tcp"
    /\ ret.tag = "Ok"
    /\ \E nd \in SockOptOutcomes, ka \in KaOutcomes :
          LET stream == ret.val[1]
              r == ConfigureTcp(stream, keepalive_config, nd, ka)
          IN /\ sockopts' = sockopts \o SockOptCalls(stream, keepalive_config, nd, ka)
             /\ IF r.tag = "Ok"
                THEN Return(r, stream.fd) /\ UNCHANGED last_err
                ELSE /\ last_err' = Some(r.err[1])
                     /\ open_fds' = open_fds \ {stream.fd}
                     /\ pc' = "loop"
                     /\ UNCHANGED result
    /\ UNCHANGED <<inputs, addrs, next, now, deadline, conn, ret, attempts, lookup>>

\* faulty variant: the socket is configured but the loop goes on (no return)
CsCandidateConnected_NoReturn ==
    /\ pc = "returned" /\ entry = "connect_socket"
    /\ host.tag = "Tcp"
    /\ ret.tag = "Ok"
    /\ \E nd \in SockOptOutcomes, ka \in KaOutcomes :
          sockopts' = sockopts \o SockOptCalls(ret.val[1], keepalive_config, nd, ka)
    /\ open_fds' = open_fds \ {ret.val[1].fd}
    /\ pc' = "loop"
    /\ UNCHANGED <<inputs, addrs, next, last_err, now, deadline, conn, ret, result,
                   attempts, lookup>>

CsCandidateConnected ==
    /\ pc = "returned" /\ entry = "connect_socket"
    /\ host.tag = "Tcp"
    /\ ret.tag = "Ok"
    /\ \E nd \in SockOptOutcomes, ka \in KaOutcomes :
          LET stream == ret.val[1] IN
          /\ Return(ConfigureTcp(stream, keepalive_config, nd, ka), stream.fd)
          /\ sockopts' = sockopts \o SockOptCalls(stream, keepalive_config, nd, ka)
    /\ UNCHANGED <<inputs, addrs, next, last_err, now, deadline, conn, ret,
                   attempts, lookup>>

\* faulty variant: the recorded error is dropped for the no-addresses error
Exhausted_Swallow(le) ==
    Error_connect(CustomError("InvalidInput", "could not resolve any addresses"))

\* faulty variant: an empty candidate list is reported as a timeout
Exhausted_AsTimeout(le) == IF le = None THEN Error_connect(TimedOutError) ELSE le[1]

\* Err(last_err.unwrap_or_else(|| Error::connect(io::Error::new(InvalidInput, ..))))
Exhausted(le) ==
    IF le = None
    THEN Error_connect(CustomError("InvalidInput", "could not resolve any addresses"))
    ELSE le[1]

CsExhausted ==
    /\ pc = "loop"
    /\ next > Len(addrs)
    /\ Return(Err(Exhausted(last_err)), 0)
    /\ UNCHANGED <<inputs, addrs, next, last_err, now, deadline, conn, ret,
                   attempts, lookup, sockopts>>

CsUnixStart ==
    /\ pc = "call" /\ entry = "connect_socket"
    /\ host.tag = "Unix"
    /\ StartConnect(ToUnix(SocketPath(host.path, port)))
    /\ UNCHANGED <<inputs, addrs, next, last_err, now, result, lookup, sockopts>>

\* faulty variant: the connected stream is wrapped as a Tcp socket
CsUnixReturn_AsTcp ==
    /\ pc = "returned" /\ entry = "connect_socket"
    /\ host.tag = "Unix"
    /\ Return(IF ret.tag = "Ok" THEN Ok(Socket_new_tcp(ret.val[1])) ELSE Err(ret.err[1]), 0)
    /\ UNCHANGED <<inputs, addrs, next, last_err, now, deadline, conn, ret,
                   attempts, lookup, sockopts>>

CsUnixReturn ==
    /\ pc = "returned" /\ entry = "connect_socket"
    /\ host.tag = "Unix"
    /\ Return(IF ret.tag = "Ok" THEN Ok(Socket_new_unix(ret.val[1])) ELSE Err(ret.err[1]), 0)
    /\ UNCHANGED <<inputs, addrs, next, last_err, now, deadline, conn, ret,
                   attempts, lookup, sockopts>>

Next ==
    \/ CsaTcpStart \/ CsaTcpFailed \/ CsaTcpConnected
    \/ CsaUnixUnreachable \/ CsaUnixStart \/ CsaUnixReturn
    \/ CsLookup \/ CsLookupFails \/ CsLookupNeverReturns \/ CsLookupReturns
    \/ CsNextCandidate \/ CsCandidateFailed \/ CsCandidateConnected \/ CsExhausted
    \/ CsUnixStart \/ CsUnixReturn
    \/ Tick \/ OpCompletes \/ TimerFires

Spec == Init /\ [][Next]_vars

\* the runtime keeps polling the dial: a step that can be taken (time passing,
\* the operation completing, the timer firing, the Dialer going on) is taken
FairSpec == Spec /\ WF_vars(Next)

\* ================================================================ claims
\* resolve-then-dial on a Tcp host
IsCs == entry = "connect_socket" /\ host.tag = "Tcp"
Returned == pc = "done"
ReturnedTcp == result.tag = "Ok" /\ result.val[1].tag = "Tcp"
TimeoutError == Error_connect(TimedOutError)
NoAddressesCause == CustomError("InvalidInput", "could not resolve any addresses")
\* the wrapper's mapping of the connect operation's own outcome
OwnOutcome(c) == IF c.outcome.tag = "Ok" THEN Ok(NewStream(c.target, c.fd))
                 ELSE Err(Error_connect(c.outcome.err[1]))
SockOptFailed == \E i \in 1..Len(sockopts) : sockopts[i].res.tag = "Err"

\* C1 (as stated): when candidate k is the first whose connect succeeds, the
\* dial returns a Tcp Socket wrapping the stream connected to candidate k and
\* no candidate after k is attempted.
C1_Original ==
    (IsCs /\ Returned) =>
        \A k \in 1..Len(attempts) :
            attempts[k].ret.tag = "Ok" =>
                /\ k = Len(attempts)
                /\ ReturnedTcp
                /\ result.val[1].stream.fd = attempts[k].fd
                /\ result.val[1].stream.target = ToTcp(addrs[k])

\* C1 (amended): when candidate k is the first whose connect succeeds, no
\* candidate after k is ever attempted, all candidates before k were attempted
\* in order and failed, and the dial returns a Tcp Socket wrapping the stream
\* connected to candidate k unless configuring that stream fails, in which
\* case it returns that failure as an error.
C1_FirstSuccessWins ==
    IsCs =>
        \A k \in 1..Len(attempts) :
            attempts[k].ret.tag = "Ok" =>
                /\ k = Len(attempts)
                /\ pc \in {"returned", "done"}
                /\ \A j \in 1..(k - 1) : attempts[j].ret.tag = "Err"
                /\ \A j \in 1..k : attempts[j].target = ToTcp(addrs[j])
                /\ attempts[k].ret.val[1].target = ToTcp(addrs[k])
                /\ Returned =>
                      IF SockOptFailed
                      THEN result.tag = "Err"
                      ELSE /\ ReturnedTcp
                           /\ result.val[1].stream.fd = attempts[k].fd
                           /\ result.val[1].stream.target = ToTcp(addrs[k])

\* C1 witness: the second of three distinct-order candidates connected and
\* the dial returned its socket
C1_Witness ==
    /\ IsCs /\ Returned /\ ReturnedTcp
    /\ Len(addrs) = 3 /\ Len(attempts) = 2
    /\ addrs[1] # addrs[2]
    /\ attempts[1].ret.tag = "Err"

\* C2: when every candidate of a non-empty resolved sequence fails (I/O error
\* or timeout), the dial returns the error of the last candidate.
C2_LastErrorReturned ==
    (/\ IsCs /\ Returned /\ lookup = "ok" /\ Len(addrs) > 0
     /\ \A k \in 1..Len(attempts) : attempts[k].ret.tag = "Err")
    => /\ Len(attempts) = Len(addrs)
       /\ result = Err(attempts[Len(addrs)].ret.err[1])
       /\ LET c == conn[1] IN
          result.err[1] = IF c.how = "timer" THEN TimeoutError
                          ELSE Error_connect(c.outcome.err[1])

\* C2 witness: three candidates failed, the last with an error that differs
\* from the first's and from the second's
C2_Witness ==
    /\ IsCs /\ Returned /\ result.tag = "Err"
    /\ Len(addrs) = 3 /\ Len(attempts) = 3
    /\ \A k \in 1..3 : attempts[k].ret.tag = "Err"
    /\ attempts[1].ret # attempts[3].ret
    /\ attempts[2].ret # attempts[3].ret

C4_LookupFailureNoAttempts ==
    lookup = "failed"
    => /\ Returned
       /\ result.tag = "Err"
       /\ attempts = <<>>
       /\ conn = None
       /\ addrs = <<>>
       /\ open_fds = {}
       /\ sockopts = <<>>

\* C4 witness: a dial whose lookup failed
C4_Witness == IsCs /\ lookup = "failed" /\ Returned /\ attempts = <<>>

C7_NoDescriptorLeak ==
    /\ pc \in {"call", "lookup", "loop"} => open_fds = {}
    /\ pc = "connecting" => open_fds = {conn[1].fd}
    /\ pc = "returned" =>
          open_fds = IF ret.tag = "Ok" THEN {ret.val[1].fd} ELSE {}
    /\ Returned =>
          open_fds = IF result.tag = "Ok" THEN {result.val[1].stream.fd} ELSE {}
    /\ Cardinality(open_fds) <= 1

\* C7 witness: the Dialer has started the second candidate after the first
\* one was abandoned on its deadline
C7_Witness ==
    /\ IsCs /\ pc = "connecting"
    /\ Len(attempts) = 2
    /\ attempts[1].ret = Err(TimeoutError)

\* C8: with a deadline d, every candidate's attempt gets a full budget d from
\* its own start: the timer is armed at start + d, it fires only on an
\* operation that needs more than d, and an operation that completes within d
\* of its start returns its own outcome whatever time earlier candidates used.
C8_DeadlinePerCandidate ==
    (connect_timeout # None /\ conn # None)
    => LET c == conn[1]
           d == connect_timeout[1]
       IN /\ pc = "connecting" =>
                /\ deadline = Some(c.start + d)
                /\ now <= c.start + d
          /\ (pc = "returned" /\ c.how = "timer") => now = c.start + d
          /\ c.how = "timer" => c.latency = None \/ c.latency[1] > d
          /\ (c.how # "inflight" /\ c.latency # None /\ c.latency[1] <= d) =>
                /\ c.how = "completed"
                /\ ret = OwnOutcome(c)
                /\ pc = "returned" => now = c.start + c.latency[1]

\* C8 witness: the first candidate used up the whole deadline, and the second,
\* needing exactly the deadline, then connected
C8_Witness ==
    /\ IsCs /\ connect_timeout # None /\ conn # None
    /\ Len(attempts) = 2
    /\ attempts[1].ret = Err(TimeoutError)
    /\ conn[1].start >= connect_timeout[1]
    /\ conn[1].latency = connect_timeout
    /\ conn[1].how = "completed"
    /\ ret.tag = "Ok"

\* C9: with no deadline the timer is never armed and never fires; the
\* wrapper returns the operation's own outcome: the same stream on success,
\* its I/O failure wrapped as a Connect error on failure, never the
\* synthesized timeout error.
C9_NoDeadlineUnchanged ==
    (connect_timeout = None /\ conn # None)
    => LET c == conn[1] IN
       /\ deadline = None
       /\ c.how # "timer"
       /\ c.how = "inflight" => ret = Pending
       /\ c.how = "completed" =>
             /\ ret = OwnOutcome(c)
             /\ ret # Err(TimeoutError)
             /\ c.outcome.tag = "Ok" => ret.val[1].fd = c.fd /\ ret.val[1].target = c.target
             /\ c.outcome.tag = "Err" =>
                   ret.err[1].kind = "Connect" /\ ret.err[1].cause = c.outcome.err

\* C9 witness: with no deadline, a connect that failed late with the OS's own
\* timeout error came back carrying that error
C9_Witness ==
    /\ connect_timeout = None /\ conn # None
    /\ conn[1].how = "completed"
    /\ conn[1].latency = Some(MaxLatency)
    /\ ret = Err(Error_connect(OsError("TimedOut")))

\* C10: a Tcp Socket is returned, by either entry point, only with
\* send-coalescing disabled on it and, when a KeepaliveConfig was supplied,
\* with that config applied; a failure of either setting makes the dial
\* return a Connect error and no Socket; with no KeepaliveConfig keepalive is
\* never applied.
C10_ConfiguredOrError ==
    /\ ReturnedTcp =>
          LET s == result.val[1].stream IN
          /\ s.nodelay
          /\ s.keepalive = IF keepalive_config = None THEN None
                           ELSE Some(TcpKeepalive_from(keepalive_config[1]))
          /\ sockopts # <<>>
          /\ sockopts[1] = [fd |-> s.fd, opt |-> "nodelay", res |-> IoOk]
          /\ keepalive_config # None =>
                Len(sockopts) = 2
                /\ sockopts[2] = [fd |-> s.fd, opt |-> "keepalive", res |-> IoOk]
    /\ \A i \in 1..Len(sockopts) :
          sockopts[i].res.tag = "Err" =>
              /\ Returned
              /\ result = Err(Error_connect(sockopts[i].res.err[1]))
              /\ i = Len(sockopts)
    /\ keepalive_config = None =>
          \A i \in 1..Len(sockopts) : sockopts[i].opt # "keepalive"

\* C10 witness: the direct-address dial returned a Tcp Socket with keepalive
\* applied
C10_Witness ==
    /\ entry = "connect_socket_addr" /\ ReturnedTcp
    /\ keepalive_config # None
    /\ result.val[1].stream.keepalive # None
\* the attempts whose wrapper has not returned yet
InFlight == {j \in 1..Len(attempts) : attempts[j].ret.tag = "Pending"}

\* C11: in resolve-then-dial on a Tcp host the connect attempts are strictly
\* sequential and in resolver order: at most one attempt is in flight (and it
\* is the latest one), and the addresses attempted so far are exactly a prefix
\* of the resolver's sequence, position by position: nothing reordered,
\* skipped, deduplicated or retried.
C11_SequentialResolverOrder ==
    IsCs =>
        /\ Len(attempts) <= Len(addrs)
        /\ \A j \in 1..Len(attempts) : attempts[j].target = ToTcp(addrs[j])
        /\ Len(attempts) = next - 1
        /\ Cardinality(InFlight) <= 1
        /\ InFlight = IF pc = "connecting" THEN {Len(attempts)} ELSE {}
        /\ \A j \in 1..Len(attempts) : attempts[j].fd = j
        /\ (Returned /\ result.tag = "Err" /\ ~SockOptFailed /\ lookup = "ok")
              => Len(attempts) = Len(addrs)

\* C11 witness: the resolver returned the same address twice and then another
\* one, and all three positions were dialled in turn
C11_Witness ==
    /\ IsCs /\ Len(addrs) = 3 /\ Len(attempts) = 3
    /\ addrs[1] = addrs[2] /\ addrs[2] # addrs[3]
    /\ pc = "connecting"
\* a dial on a Local host that reaches the Local branch of its entry point
IsLocalDial ==
    /\ host.tag = "Unix"
    /\ entry = "connect_socket" \/ socket = Some(AddrUnix)

\* the ports of the model written out in decimal, and the socket file names
PortText == [p \in Ports |-> IF p = 5432 THEN <<"5", "4", "3", "2">> ELSE <<"8", "0">>]
ExpectedFileName(p) == <<".", "s", ".", "P", "G", "S", "Q", "L", ".">> \o PortText[p]
\* D joined with the file name: one separator between them, unless D is empty
\* or already ends with one
ExpectedPath(dir, p) ==
    IF dir = <<>> THEN ExpectedFileName(p)
    ELSE IF dir[Len(dir)] = "/" THEN dir \o ExpectedFileName(p)
    ELSE dir \o <<"/">> \o ExpectedFileName(p)

\* C12: for a Local host with directory D and port P, both entry points
\* connect to exactly the path D joined with ".s.PGSQL." followed by P in
\* decimal, and to no other path (one attempt, to a Unix path).
C12_LocalSocketPath ==
    /\ IsLocalDial =>
          /\ Len(attempts) <= 1
          /\ \A j \in 1..Len(attempts) :
                /\ attempts[j].target.tag = "Unix"
                /\ attempts[j].target.addr = None
                /\ attempts[j].target.path = ExpectedPath(host.path, port)
          /\ pc # "call" => Len(attempts) = 1
    /\ (IsLocalDial /\ attempts # <<>> /\ host.path = VarRunPostgresql /\ port = 5432) =>
          attempts[1].target.path =
              <<"/", "v", "a", "r", "/", "r", "u", "n", "/",
                "p", "o", "s", "t", "g", "r", "e", "s", "q", "l", "/",
                ".", "s", ".", "P", "G", "S", "Q", "L", ".", "5", "4", "3", "2">>

\* C12 witness: resolve-then-dial on /var/run/postgresql, port 5432, has
\* dialled its path
C12_Witness ==
    /\ entry = "connect_socket" /\ host = HostUnix(VarRunPostgresql) /\ port = 5432
    /\ Len(attempts) = 1
\* what a Local dial returns, as a function of the host, the port, the timeout
\* and the peer's behaviour alone (c is the one connect attempt): the entry
\* point does not occur in it
LocalTimesOut(c) ==
    connect_timeout # None /\ (c.latency = None \/ c.latency[1] > connect_timeout[1])
LocalOutcome(c) ==
    IF LocalTimesOut(c) THEN Err(TimeoutError)
    ELSE IF c.outcome.tag = "Ok"
         THEN Ok([tag |-> "Unix",
                  stream |-> [target |-> ToUnix(ExpectedPath(host.path, port)), fd |-> 1,
                              nodelay |-> FALSE, keepalive |-> None]])
         ELSE Err(Error_connect(c.outcome.err[1]))

\* C13: for a Local host, resolve-then-dial and the direct-address dial with
\* the Local address behave identically: each performs no name resolution,
\* makes exactly one timeout-wrapped connect attempt to the same path, and
\* returns the same outcome (Local Socket, Connect error or timeout error),
\* the one determined by host, port, timeout and the peer's behaviour.
C13_LocalDialsAgree ==
    IsLocalDial =>
        /\ lookup = "none" /\ addrs = <<>> /\ last_err = None
        /\ pc \notin {"lookup", "loop"}
        /\ Len(attempts) <= 1
        /\ \A j \in 1..Len(attempts) :
              attempts[j].target = ToUnix(ExpectedPath(host.path, port))
        /\ pc = "returned" => (conn[1].how = "timer" <=> LocalTimesOut(conn[1]))
        /\ Returned =>
              /\ Len(attempts) = 1
              /\ result = LocalOutcome(conn[1])
              /\ result.tag \in {"Ok", "Err"}

\* C13 witness: resolve-then-dial on a Local host returned the timeout error of
\* its single attempt
C13_Witness ==
    /\ entry = "connect_socket" /\ host.tag = "Unix" /\ Returned
    /\ result = Err(TimeoutError)
    /\ Len(attempts) = 1
\* C14: Local sockets bypass the Configurator: on a dial that connects a Local
\* socket no socket option is ever set (neither send-coalescing nor
\* keepalive, even with a KeepaliveConfig), and the Local Socket returned is
\* the stream exactly as the connect produced it.
C14_LocalBypassesConfigurator ==
    (conn # None /\ conn[1].target.tag = "Unix") =>
        /\ sockopts = <<>>
        /\ ret.tag = "Ok" =>
              /\ ~ret.val[1].nodelay
              /\ ret.val[1].keepalive = None
              /\ Returned => result = Ok(Socket_new_unix(ret.val[1]))
        /\ (Returned /\ result.tag = "Ok") =>
              /\ result.val[1].tag = "Unix"
              /\ ~result.val[1].stream.nodelay
              /\ result.val[1].stream.keepalive = None
              /\ result.val[1].stream.fd = conn[1].fd

\* C14 witness: the direct-address dial returned a Local Socket although a
\* KeepaliveConfig was supplied
C14_Witness ==
    /\ entry = "connect_socket_addr" /\ keepalive_config # None
    /\ Returned /\ result.tag = "Ok" /\ result.val[1].tag = "Unix"
\* the two mismatched pairings of the direct-address dial
TcpHostLocalAddr ==
    entry = "connect_socket_addr" /\ host.tag = "Tcp" /\ socket = Some(AddrUnix)
LocalHostTcpAddr ==
    entry = "connect_socket_addr" /\ host.tag = "Unix" /\ socket[1].tag = "Tcp"

\* C15 (as stated): a mismatched host/address pairing never leads to a connect
\* attempt, a returned Socket or a ConnectError.
C15_Original ==
    (TcpHostLocalAddr \/ LocalHostTcpAddr) =>
        /\ attempts = <<>>
        /\ conn = None
        /\ result.tag \notin {"Ok", "Err"}

\* C15 (amended): a Tcp host with a Local resolved address never leads to a
\* connect attempt, a returned Socket or a ConnectError: the dial stops in
\* unreachable!().  A Local host with a Tcp resolved address is not rejected:
\* it is dialled as a plain Tcp address (one attempt, to that address) and may
\* return a Tcp Socket or a Connect error.
C15_MismatchOneWay ==
    /\ TcpHostLocalAddr =>
          /\ attempts = <<>> /\ conn = None /\ open_fds = {} /\ sockopts = <<>>
          /\ result = IF Returned THEN Panic ELSE Pending
          /\ pc \in {"call", "done"}
    /\ LocalHostTcpAddr =>
          /\ result # Panic
          /\ pc # "call" => Len(attempts) = 1 /\ attempts[1].target = ToTcp(socket[1])
          /\ Returned => result.tag \in {"Ok", "Err"}
          /\ (Returned /\ result.tag = "Ok") =>
                /\ result.val[1].tag = "Tcp"
                /\ result.val[1].stream.target = ToTcp(socket[1])

\* C15 witness: the direct-address dial was given a Local host with a Tcp
\* address and returned a Tcp Socket
C15_Witness == LocalHostTcpAddr /\ ReturnedTcp /\ keepalive_config = None
\* what the direct-address dial of a Tcp address returns, as a function of the
\* address, the timeout, the keepalive config, the peer's behaviour (c) and
\* the setsockopt results (log) alone: the host does not occur in it
DirectTcpOutcome(c, log) ==
    IF LocalTimesOut(c) THEN Err(TimeoutError)
    ELSE IF c.outcome.tag = "Err" THEN Err(Error_connect(c.outcome.err[1]))
    ELSE IF log[Len(log)].res.tag = "Err" THEN Err(Error_connect(log[Len(log)].res.err[1]))
    ELSE Ok([tag |-> "Tcp",
             stream |-> [target |-> ToTcp(socket[1]), fd |-> 1, nodelay |-> TRUE,
                         keepalive |-> IF keepalive_config = None THEN None
                                       ELSE Some(TcpKeepalive_from(keepalive_config[1]))]])

\* C16: the direct-address dial of a Tcp resolved address makes exactly one
\* timeout-wrapped connect attempt, to that address, and its result does not
\* depend on the Host argument.
C16_DirectTcpIgnoresHost ==
    (entry = "connect_socket_addr" /\ socket[1].tag = "Tcp") =>
        /\ Len(attempts) <= 1
        /\ pc # "call" => Len(attempts) = 1
        /\ \A j \in 1..Len(attempts) : attempts[j].target = ToTcp(socket[1])
        /\ lookup = "none" /\ addrs = <<>>
        /\ Returned => result = DirectTcpOutcome(conn[1], sockopts)

\* C16 witness: the direct-address dial of a Tcp address, given a Local host,
\* returned the timeout error of its single attempt
C16_Witness ==
    /\ entry = "connect_socket_addr" /\ socket[1].tag = "Tcp" /\ host.tag = "Unix"
    /\ Returned /\ result = Err(TimeoutError)
    /\ Len(attempts) = 1
\* the candidates that failed to connect so far, and the latest of them
FailedAttempts == {j \in 1..Len(attempts) : attempts[j].ret.tag = "Err"}
ConnectedAttempts == {j \in 1..Len(attempts) : attempts[j].ret.tag = "Ok"}
LastFailed == CHOOSE j \in FailedAttempts : \A i \in FailedAttempts : i <= j

\* C17 (as stated): whenever resolve-then-dial returns an error after at least
\* one candidate failed to connect, the returned error is the error of the
\* most recently failed candidate.
C17_Original ==
    (IsCs /\ Returned /\ result.tag = "Err" /\ FailedAttempts # {})
    => result = Err(attempts[LastFailed].ret.err[1])

\* C17 (amended): the recorded last error is always the error of the most
\* recently failed candidate; whenever resolve-then-dial returns an error
\* after at least one candidate failed and no candidate connected, the
\* returned error is that one; when a later candidate connected and its
\* configuration failed, the configuration failure is returned instead and
\* the recorded error is discarded.
C17_LastErrorSurfaced ==
    IsCs =>
        /\ pc # "returned" =>
              last_err = IF FailedAttempts = {} THEN None
                         ELSE Some(attempts[LastFailed].ret.err[1])
        /\ (Returned /\ result.tag = "Err" /\ FailedAttempts # {}) =>
              IF ConnectedAttempts = {}
              THEN result = Err(attempts[LastFailed].ret.err[1])
              ELSE /\ SockOptFailed
                   /\ result = Err(Error_connect(sockopts[Len(sockopts)].res.err[1]))
        /\ (Returned /\ result.tag = "Ok") => ConnectedAttempts = {Len(attempts)}

\* C17 witness: two candidates failed with different errors and the dial
\* returned the second one's
C17_Witness ==
    /\ IsCs /\ Returned /\ Len(addrs) = 2
    /\ FailedAttempts = {1, 2}
    /\ attempts[1].ret # attempts[2].ret
    /\ last_err = Some(result.err[1])
\* C18: in resolve-then-dial on a Tcp host a configuration failure on a
\* connected candidate ends the dial at once: the dial returns that failure
\* as a Connect error, no later candidate is attempted, and the error
\* recorded from earlier candidates is not the one returned; only a failed
\* or timed-out connect makes the Dialer go on to the next candidate.
C18_ConfigFailureEndsDial ==
    IsCs =>
        /\ SockOptFailed =>
              /\ Returned
              /\ result = Err(Error_connect(sockopts[Len(sockopts)].res.err[1]))
              /\ result.err[1].kind = "Connect"
              /\ ConnectedAttempts = {Len(attempts)}
              /\ last_err # None => result.err[1] # last_err[1]
              /\ open_fds = {}
        /\ \A j \in 1..(Len(attempts) - 1) : attempts[j].ret.tag = "Err"
        /\ sockopts # <<>> => Returned /\ \A i \in 1..Len(sockopts) :
                                            sockopts[i].fd = Len(attempts)

\* C18 witness: the first of three candidates failed, the second connected but
\* applying keepalive to it failed, and the third was never dialled
C18_Witness ==
    /\ IsCs /\ Returned /\ Len(addrs) = 3 /\ Len(attempts) = 2
    /\ last_err # None
    /\ Len(sockopts) = 2 /\ sockopts[2].res.tag = "Err"
    /\ result.tag = "Err"
\* a connect operation that never completes is awaited without a deadline
NoDeadlineHang ==
    /\ entry = "connect_socket"
    /\ connect_timeout = None
    /\ pc = "connecting"
    /\ conn[1].latency = None

\* C19: with a deadline configured, once name resolution returns, every
\* resolve-then-dial eventually returns (a Socket or an error), even when
\* connect operations never complete; with no deadline, a connect operation
\* that never completes keeps the dial pending on that candidate for ever: no
\* later candidate is started and nothing is returned.
C19_ReturnsIffDeadline ==
    /\ (entry = "connect_socket" /\ connect_timeout # None)
          => <>(Returned \/ lookup = "never")
    /\ [][NoDeadlineHang =>
            (NoDeadlineHang' /\ UNCHANGED <<attempts, result, next, conn>>)]_vars
    /\ [](NoDeadlineHang => (result = Pending /\ ~ENABLED Next))

\* C19 witness: with a deadline, three candidates whose connects never
\* complete were each abandoned and the dial returned the timeout error
C19_Witness ==
    /\ IsCs /\ connect_timeout # None /\ Returned
    /\ Len(addrs) = 3 /\ Len(attempts) = 3
    /\ conn[1].latency = None
    /\ result = Err(TimeoutError)
====
